---- MODULE Spec2Model ----
(***************************************************************************)
(* Model of src/main.py: the HuggingFaceChatbot adapter (query_model,      *)
(* get_response) and the Streamlit session driven by main().               *)
(*                                                                         *)
(* Python strings are sequences of one-character strings, so that strip(), *)
(* lower(), the substring test of `in` and str()/repr() are computed.      *)
(* Floats are fixed-point hundredths (0.7 is 70).                          *)
(***************************************************************************)
EXTENDS Integers, Sequences, FiniteSets, TLC

(* ------------------------------ bounds --------------------------------- *)

\* longest generated string over Alphabet among the text values
MaxLen == 2
\* number of Send presses explored in one session
MaxSends == 2

(* --------------------------- string literals --------------------------- *)

S_error == <<"e", "r", "r", "o", "r">>
S_generated_text == <<"g", "e", "n", "e", "r", "a", "t", "e", "d", "_", "t", "e", "x", "t">>
S_text == <<"t", "e", "x", "t">>
S_unexpected == <<"u", "n", "e", "x", "p", "e", "c", "t", "e", "d">>
S_qwen == <<"q", "w", "e", "n">>
S_loading == <<"l", "o", "a", "d", "i", "n", "g">>
S_ErrorPrefix == <<"E", "r", "r", "o", "r", ":", " ">>
FallbackMsg == <<"S", "o", "r", "r", "y", ",", " ", "I", " ", "c", "o", "u", "l", "d", "n", "'", "t", " ", "p", "r", "o", "c", "e", "s", "s", " ", "t", "h", "e", " ", "r", "e", "s", "p", "o", "n", "s", "e", " ", "p", "r", "o", "p", "e", "r", "l", "y", ".">>
S_None == <<"N", "o", "n", "e">>
S_True == <<"T", "r", "u", "e">>
S_False == <<"F", "a", "l", "s", "e">>
HelloPrompt == <<"H", "e", "l", "l", "o", ":", " ">>
HelloText == <<"H", "e", "l", "l", "o", ":", " ", "H", "i", " ", "t", "h", "e", "r", "e">>
HiThere == <<"H", "i", " ", "t", "h", "e", "r", "e">>
LoadingDesc == <<"M", "o", "d", "e", "l", " ", "X", "Y", "Z", " ", "i", "s", " ", "c", "u", "r", "r", "e", "n", "t", "l", "y", " ", "l", "o", "a", "d", "i", "n", "g">>
ServerErrorDesc == <<"5", "0", "3", " ", "S", "e", "r", "v", "e", "r", " ", "E", "r", "r", "o", "r">>
UnexpectedRendering == <<"{", "'", "u", "n", "e", "x", "p", "e", "c", "t", "e", "d", "'", ":", " ", "4", "2", "}">>
EmptyListRendering == <<"[", "]">>
ImStart == <<"<", "|", "i", "m", "_", "s", "t", "a", "r", "t", "|", ">">>
ImEnd == <<"<", "|", "i", "m", "_", "e", "n", "d", "|", ">">>

\* three entries of get_model_options()
Qwen2Instruct == <<"Q", "w", "e", "n", "/", "Q", "w", "e", "n", "2", "-", "0", ".", "5", "B", "-", "I", "n", "s", "t", "r", "u", "c", "t">>
Gpt2 == <<"g", "p", "t", "2">>
FlanT5Base == <<"g", "o", "o", "g", "l", "e", "/", "f", "l", "a", "n", "-", "t", "5", "-", "b", "a", "s", "e">>

(* -------------------------- Python str methods ------------------------- *)

UpperLetters == <<"A","B","C","D","E","F","G","H","I","J","K","L","M","N","O","P","Q","R","S","T","U","V","W","X","Y","Z">>
LowerLetters == <<"a","b","c","d","e","f","g","h","i","j","k","l","m","n","o","p","q","r","s","t","u","v","w","x","y","z">>

LowerChar(c) ==
    IF \E i \in 1..26 : UpperLetters[i] = c
    THEN LowerLetters[CHOOSE i \in 1..26 : UpperLetters[i] = c]
    ELSE c

\* str.lower()
py_lower(s) == [i \in 1..Len(s) |-> LowerChar(s[i])]

\* `sub in s` for two strings
py_contains(s, sub) ==
    \E i \in 1..(Len(s) - Len(sub) + 1) : SubSeq(s, i, i + Len(sub) - 1) = sub

Whitespace == {" "}

\* str.strip()
py_strip(s) ==
    LET keep == {i \in 1..Len(s) : s[i] \notin Whitespace}
    IN  IF keep = {} THEN <<>>
        ELSE LET lo == CHOOSE i \in keep : \A j \in keep : i <= j
                 hi == CHOOSE i \in keep : \A j \in keep : j <= i
             IN  SubSeq(s, lo, hi)

DigitChars == <<"0","1","2","3","4","5","6","7","8","9">>

RECURSIVE Digits(_)
\* str(n) of a non-negative int
Digits(n) == IF n < 10 THEN <<DigitChars[n + 1]>>
             ELSE Digits(n \div 10) \o <<DigitChars[(n % 10) + 1]>>

(* ----------------------------- JSON values ----------------------------- *)

\* A parsed JSON value is a record [k, s, n, d, l]: k is its Python type,
\* s the characters of a str, n the value of an int (0/1 for a bool), d the
\* (key, value) pairs of a dict in insertion order, l the items of a list.
\* Values stored under a dict key and items of a nested list are leaves
\* [k, s, n].
LStr(s) == [k |-> "str", s |-> s, n |-> 0]
LNum(n) == [k |-> "num", s |-> <<>>, n |-> n]
LNull == [k |-> "null", s |-> <<>>, n |-> 0]
LBool(b) == [k |-> "bool", s |-> <<>>, n |-> IF b THEN 1 ELSE 0]

VStr(s) == [k |-> "str", s |-> s, n |-> 0, d |-> <<>>, l |-> <<>>]
VNum(n) == [k |-> "num", s |-> <<>>, n |-> n, d |-> <<>>, l |-> <<>>]
VNull == [k |-> "null", s |-> <<>>, n |-> 0, d |-> <<>>, l |-> <<>>]
VBool(b) == [k |-> "bool", s |-> <<>>, n |-> IF b THEN 1 ELSE 0, d |-> <<>>, l |-> <<>>]
VDict(d) == [k |-> "dict", s |-> <<>>, n |-> 0, d |-> d, l |-> <<>>]
VList(l) == [k |-> "list", s |-> <<>>, n |-> 0, d |-> <<>>, l |-> l]

Pair(key, val) == [key |-> key, val |-> val]

Keys == {"error", "generated_text", "text", "unexpected"}

KeyChars(key) ==
    CASE key = "error" -> S_error
      [] key = "generated_text" -> S_generated_text
      [] key = "text" -> S_text
      [] key = "unexpected" -> S_unexpected

\* types that support the `in` operator
py_iterable(v) == v.k \in {"dict", "list", "str"}

\* `key in v` for an iterable v: key lookup in a dict, element equality in a
\* list, substring test in a str
py_in(key, v) ==
    CASE v.k = "dict" -> \E i \in 1..Len(v.d) : v.d[i].key = key
      [] v.k = "list" -> \E i \in 1..Len(v.l) :
                            v.l[i].k = "str" /\ v.l[i].s = KeyChars(key)
      [] v.k = "str"  -> py_contains(v.s, KeyChars(key))

\* v[key] for a dict v that has the key
py_getitem(v, key) == v.d[CHOOSE i \in 1..Len(v.d) : v.d[i].key = key].val

RECURSIVE JoinComma(_)
\* ", ".join(parts)
JoinComma(parts) ==
    IF Len(parts) = 0 THEN <<>>
    ELSE IF Len(parts) = 1 THEN parts[1]
    ELSE parts[1] \o <<",", " ">> \o JoinComma(Tail(parts))

Quoted(s) == <<"'">> \o s \o <<"'">>

\* repr() of a leaf (the strings of the model hold no quote or escape)
leaf_repr(v) ==
    CASE v.k = "str"  -> Quoted(v.s)
      [] v.k = "num"  -> Digits(v.n)
      [] v.k = "null" -> S_None
      [] v.k = "bool" -> IF v.n = 1 THEN S_True ELSE S_False

\* str() of a leaf, as an f-string formats it
leaf_str(v) == IF v.k = "str" THEN v.s ELSE leaf_repr(v)

dict_repr(d) ==
    <<"{">> \o JoinComma([i \in 1..Len(d) |->
                Quoted(KeyChars(d[i].key)) \o <<":", " ">> \o leaf_repr(d[i].val)])
          \o <<"}">>

leaves_repr(l) ==
    <<"[">> \o JoinComma([i \in 1..Len(l) |-> leaf_repr(l[i])]) \o <<"]">>

\* repr() of a list item
elem_repr(e) ==
    CASE e.k = "dict" -> dict_repr(e.d)
      [] e.k = "list" -> leaves_repr(e.l)
      [] OTHER        -> leaf_repr(e)

\* str(result)
py_str(v) ==
    CASE v.k = "dict" -> dict_repr(v.d)
      [] v.k = "list" -> <<"[">> \o JoinComma([i \in 1..Len(v.l) |-> elem_repr(v.l[i])]) \o <<"]">>
      [] OTHER        -> leaf_str(v)

(* ------------------------- HuggingFaceChatbot -------------------------- *)

ParamKeys == {"max_new_tokens", "temperature", "top_p", "do_sample",
              "return_full_text", "repetition_penalty"}

EmptyMap == [k \in {} |-> 0]

\* dict.update() under a mutation: existing keys keep their value
dict_update_keep(d, u) ==
    [k \in DOMAIN d \cup DOMAIN u |-> IF k \in DOMAIN d THEN d[k] ELSE u[k]]

\* dict.update(): d with every key of u set to u's value
dict_update(d, u) ==
    [k \in DOMAIN d \cup DOMAIN u |-> IF k \in DOMAIN u THEN u[k] ELSE d[k]]

default_params ==
    [k \in {"max_new_tokens", "temperature", "top_p", "do_sample", "return_full_text"} |->
        CASE k = "max_new_tokens" -> 150
          [] k = "temperature" -> 70
          [] k = "top_p" -> 90
          [] k = "do_sample" -> TRUE
          [] k = "return_full_text" -> FALSE]

qwen_params ==
    [k \in {"max_new_tokens", "temperature", "top_p", "repetition_penalty"} |->
        CASE k = "max_new_tokens" -> 200
          [] k = "temperature" -> 80
          [] k = "top_p" -> 95
          [] k = "repetition_penalty" -> 110]

\* "qwen" in model_name.lower()
is_qwen(model_name) == py_contains(py_lower(model_name), S_qwen)

\* the default set under a mutation: the Qwen set replaces the base set
select_defaults_replace(model_name) ==
    IF is_qwen(model_name) THEN qwen_params ELSE default_params

\* default_params after the Qwen adjustment
select_defaults(model_name) ==
    IF is_qwen(model_name) THEN dict_update(default_params, qwen_params)
    ELSE default_params

\* `if parameters:` is false for None and for an empty dict
merged_params(model_name, parameters) ==
    IF parameters.given /\ DOMAIN parameters.map # {}
    THEN dict_update(select_defaults(model_name), parameters.map)
    ELSE select_defaults(model_name)

\* the request under a mutation: a Qwen prompt is wrapped in turn markers
query_model_template(api_token, model_name, prompt, parameters) ==
    [model |-> model_name,
     authorization |-> api_token,
     json |-> [inputs |-> IF is_qwen(model_name)
                          THEN ImStart \o prompt \o ImEnd ELSE prompt,
               parameters |-> merged_params(model_name, parameters)]]

\* the request that query_model posts: url suffix, bearer token, JSON body
query_model(api_token, model_name, prompt, parameters) ==
    [model |-> model_name,
     authorization |-> api_token,
     json |-> [inputs |-> prompt,
               parameters |-> merged_params(model_name, parameters)]]

Ret(s) == [kind |-> "return", val |-> s, exc |-> "none"]
Raise(e) == [kind |-> "raise", val |-> <<>>, exc |-> e]

\* the error branch under a mutation: a loading backend gets its own text
error_outcome_warming(v) ==
    IF v.k = "str" /\ py_contains(py_lower(v.s), S_loading)
    THEN Ret(S_loading)
    ELSE Ret(S_ErrorPrefix \o leaf_str(v))

\* f"Error: {result['error']}"
error_outcome(v) == Ret(S_ErrorPrefix \o leaf_str(v))

\* value.strip(): only a str has the method; AttributeError is not among
\* the exceptions the handler catches
text_outcome(v) ==
    IF v.k = "str" THEN Ret(py_strip(v.s)) ELSE Raise("AttributeError")

\* the last return under a mutation: the fixed message
unrecognized_fixed(result) == Ret(FallbackMsg)

\* return str(result)
unrecognized(result) == Ret(py_str(result))

\* the generated_text / text chain applied to c (result[0] or result); a
\* TypeError raised inside the try block yields the fixed message
pick_text(c, result) ==
    IF ~py_iterable(c) THEN Ret(FallbackMsg)
    ELSE IF py_in("generated_text", c)
         THEN IF c.k = "dict" THEN text_outcome(py_getitem(c, "generated_text"))
              ELSE Ret(FallbackMsg)
    ELSE IF py_in("text", c)
         THEN IF c.k = "dict" THEN text_outcome(py_getitem(c, "text"))
              ELSE Ret(FallbackMsg)
    ELSE unrecognized(result)

\* the try block of get_response
try_block(result) ==
    IF result.k = "list" /\ Len(result.l) > 0 THEN pick_text(result.l[1], result)
    ELSE IF result.k = "dict" THEN pick_text(result, result)
    ELSE unrecognized(result)

\* get_response under a mutation: the echoed prompt is cut out of the text
get_response_strip_prompt(model_name, prompt, parameters, result) ==
    LET o == try_block(result)
        cut == CHOOSE i \in 1..(Len(o.val) + 1) :
                  /\ SubSeq(o.val, i, i + Len(prompt) - 1) = prompt
                  /\ \A j \in 1..(i - 1) : SubSeq(o.val, j, j + Len(prompt) - 1) # prompt
    IN  IF ~py_iterable(result) THEN Raise("TypeError")
        ELSE IF py_in("error", result)
             THEN IF result.k = "dict" THEN error_outcome(py_getitem(result, "error"))
                  ELSE Raise("TypeError")
        ELSE IF o.kind = "return" /\ py_contains(o.val, prompt)
             THEN Ret(py_strip(SubSeq(o.val, 1, cut - 1)
                               \o SubSeq(o.val, cut + Len(prompt), Len(o.val))))
        ELSE o

\* what get_response does with the value query_model returned: the `in`
\* test and the subscript of line 121-122 are outside the try block
get_response(model_name, prompt, parameters, result) ==
    IF ~py_iterable(result) THEN Raise("TypeError")
    ELSE IF py_in("error", result)
         THEN IF result.k = "dict" THEN error_outcome(py_getitem(result, "error"))
              ELSE Raise("TypeError")
    ELSE try_block(result)

(* ------------------------------- state --------------------------------- *)

VARIABLES
    messages,        \* st.session_state.messages
    chatbot,         \* st.session_state.chatbot: None or a HuggingFaceChatbot
    api_configured,  \* st.session_state.api_configured
    secrets,         \* st.secrets["HUGGINGFACE_API_TOKEN"], fixed for the process
    token_input,     \* value of the fallback token text_input
    selected_model,  \* value of the model selectbox
    user_input,      \* value of the "user_input" text_input
    button,          \* the widget whose event started the last script run
    calls,           \* number of get_response calls made so far
    call,            \* arguments of the last get_response call
    request,         \* the last request query_model posted
    result,          \* what query_model returned for it
    outcome          \* how get_response ended: a returned str or an exception

ui_vars == <<messages, chatbot, api_configured, secrets, token_input,
             selected_model, user_input, button>>
adapter_vars == <<calls, call, request, result, outcome>>
vars == <<messages, chatbot, api_configured, secrets, token_input,
          selected_model, user_input, button, calls, call, request, result, outcome>>

(* ------------------------------ input sets ----------------------------- *)

Alphabet == {"a", " "}

StringsUpTo(n) == UNION {[1..m -> Alphabet] : m \in 0..n}

TextValues == StringsUpTo(MaxLen) \cup {HelloText, LoadingDesc}

LeafVals == {LStr(s) : s \in TextValues} \cup {LNum(42), LNull, LBool(TRUE)}

SmallVals == {LStr(<<"a">>), LStr(<<"a", " ">>), LNum(42)}

\* str(e) of a RequestException, or whatever a server puts under "error"
ErrorVals == {LStr(LoadingDesc), LStr(ServerErrorDesc),
              LStr(<<"L", "O", "A", "D", "I", "N", "G">>), LStr(<<>>), LNum(42)}

FieldVals(key) ==
    CASE key = "error" -> ErrorVals
      [] key = "unexpected" -> {LNum(42), LStr(<<"a">>)}
      [] OTHER -> LeafVals

Dicts ==
    {<<>>}
    \cup {<<Pair(key, v)>> : key \in Keys, v \in LeafVals \cup ErrorVals}
    \cup {<<Pair(k1, v1), Pair(k2, v2)>> :
            k1 \in Keys, k2 \in Keys \ {"unexpected"}, v1 \in SmallVals, v2 \in SmallVals}

WellFormedDict(d) ==
    /\ \A i, j \in 1..Len(d) : d[i].key = d[j].key => i = j
    /\ \A i \in 1..Len(d) : Len(d) = 1 => d[i].val \in FieldVals(d[i].key)

JsonDicts == {d \in Dicts : WellFormedDict(d)}

StrScalars == {S_error, S_text, S_generated_text, <<"a">>, <<>>}

Elems ==
    {VDict(d) : d \in JsonDicts}
    \cup {VStr(s) : s \in StrScalars}
    \cup {VNum(42), VNull, VBool(TRUE)}
    \cup {VList(<<>>), VList(<<LStr(S_text)>>), VList(<<LStr(S_generated_text)>>)}

FirstElems ==
    {VDict(<<Pair("generated_text", LStr(<<"a">>))>>),
     VDict(<<Pair("text", LStr(<<" ", "a">>))>>),
     VDict(<<Pair("unexpected", LNum(42))>>)}

RestElems ==
    {VDict(<<Pair("generated_text", LStr(<<" ">>))>>),
     VDict(<<Pair("text", LNum(42))>>),
     VStr(S_error), VStr(<<"a">>), VNum(42)}

\* the values response.json() can hand back, and the {"error": str(e)} that
\* the except clause builds
RawResults ==
    {VDict(d) : d \in JsonDicts}
    \cup {VList(<<>>)}
    \cup {VList(<<e>>) : e \in Elems}
    \cup {VList(<<e, r>>) : e \in FirstElems, r \in RestElems}
    \cup {VStr(s) : s \in StrScalars}
    \cup {VNum(42), VNum(0), VNull, VBool(FALSE)}

Models == {Qwen2Instruct, Gpt2, FlanT5Base}

Prompts == {HelloPrompt, <<"a">>, <<>>}

\* a caller's value for a key, different from both default sets
OverrideVal(key) ==
    CASE key = "max_new_tokens" -> 50
      [] key = "temperature" -> 150
      [] key = "top_p" -> 50
      [] key = "do_sample" -> FALSE
      [] key = "return_full_text" -> TRUE
      [] key = "repetition_penalty" -> 125

Temperatures == {150, 80}

OverrideKeySets ==
    {ks \in SUBSET ParamKeys : Cardinality(ks) <= 2 \/ ks = ParamKeys}

NoParameters == [given |-> FALSE, map |-> EmptyMap]

\* the `parameters` argument: None, or a dict of overrides
ParameterArgs ==
    {NoParameters}
    \cup {[given |-> TRUE,
           map |-> [key \in ks |-> IF key = "temperature" THEN t ELSE OverrideVal(key)]] :
            ks \in OverrideKeySets, t \in Temperatures}

Tokens == {"", "hf_a", "hf_b"}

NoCall == [model_name |-> <<>>, prompt |-> <<>>, parameters |-> NoParameters]
NoRequest == query_model("", <<>>, <<>>, NoParameters)

(* --------------------------- adapter on its own ------------------------ *)

InitAdapter ==
    /\ messages = <<>>
    /\ chatbot = [none |-> FALSE, api_token |-> "hf_a"]
    /\ api_configured = TRUE
    /\ secrets = [present |-> TRUE, token |-> "hf_a"]
    /\ token_input = ""
    /\ selected_model = Qwen2Instruct
    /\ user_input = <<>>
    /\ button = "none"
    /\ calls = 0
    /\ call = NoCall
    /\ request = NoRequest
    /\ result = VNull
    /\ outcome = Ret(<<>>)

\* one call chatbot.get_response(model_name, prompt, parameters); raw is the
\* value query_model gets from the endpoint or builds from the exception.
\* A call reads self.api_token and writes nothing, so the calls of a chatbot
\* are independent and one call from the constructed object is explored.
GetResponse ==
    /\ calls = 0
    /\ \E model_name \in Models, prompt \in Prompts,
          parameters \in ParameterArgs, raw \in RawResults :
        /\ calls' = 1
        /\ call' = [model_name |-> model_name, prompt |-> prompt,
                    parameters |-> parameters]
        /\ request' = query_model(chatbot.api_token, model_name, prompt, parameters)
        /\ result' = raw
        /\ outcome' = get_response(model_name, prompt, parameters, raw)
        /\ UNCHANGED ui_vars

NextAdapter == GetResponse

SpecAdapter == InitAdapter /\ [][NextAdapter]_vars

(* ------------------- properties of the adapter ------------------------- *)

Called == calls > 0

HasKey(d, key) == \E i \in 1..Len(d) : d[i].key = key
ValueOf(d, key) == d[CHOOSE i \in 1..Len(d) : d[i].key = key].val

\* the raw result is the tagged error value: a mapping with key "error"
TaggedError(r) == r.k = "dict" /\ HasKey(r.d, "error")

\* the candidate text of a mapping: generated_text first, text second
HasCandidate(d) == HasKey(d, "generated_text") \/ HasKey(d, "text")
Candidate(d) == IF HasKey(d, "generated_text") THEN ValueOf(d, "generated_text")
                ELSE ValueOf(d, "text")
TextFieldsAreStrings(d) ==
    \A i \in 1..Len(d) : d[i].key \in {"generated_text", "text"} => d[i].val.k = "str"

\* the mapping get_response takes the text from, when the result has one
HasTextMapping(r) ==
    \/ r.k = "dict" /\ HasCandidate(r.d) /\ TextFieldsAreStrings(r.d)
    \/ /\ r.k = "list" /\ Len(r.l) > 0
       /\ r.l[1].k = "dict" /\ HasCandidate(r.l[1].d) /\ TextFieldsAreStrings(r.l[1].d)
TextMapping(r) == IF r.k = "dict" THEN r.d ELSE r.l[1].d

\* no item of a list result is the string "error"
NoErrorItem(r) ==
    r.k = "list" => \A i \in 1..Len(r.l) : ~(r.l[i].k = "str" /\ r.l[i].s = S_error)

\* s without the first occurrence of sub
RemoveFirst(s, sub) ==
    IF ~py_contains(s, sub) THEN s
    ELSE LET at == CHOOSE i \in 1..(Len(s) + 1) :
                     /\ SubSeq(s, i, i + Len(sub) - 1) = sub
                     /\ \A j \in 1..(i - 1) : SubSeq(s, j, j + Len(sub) - 1) # sub
         IN  SubSeq(s, 1, at - 1) \o SubSeq(s, at + Len(sub), Len(s))

\* C1: get_response never raises and returns a string for every raw result
\* query_model can return.
C1_NeverRaises == Called => outcome.kind = "return"

\* C2: every key of the caller's parameters is sent with the caller's value,
\* and every other key is sent exactly when the selected default set has it,
\* with the default's value (Qwen: 200 / 80 / 95 / 110 on top of the base
\* set, otherwise the base set 150 / 70 / 90 / True / False).
C2_OverridesWin ==
    Called =>
        LET given == call.parameters.map
            sent == request.json.parameters
            qwen == is_qwen(call.model_name)
            DefaultKeys == IF qwen THEN ParamKeys ELSE ParamKeys \ {"repetition_penalty"}
            Default(key) ==
                CASE key = "max_new_tokens" -> IF qwen THEN 200 ELSE 150
                  [] key = "temperature" -> IF qwen THEN 80 ELSE 70
                  [] key = "top_p" -> IF qwen THEN 95 ELSE 90
                  [] key = "do_sample" -> TRUE
                  [] key = "return_full_text" -> FALSE
                  [] key = "repetition_penalty" -> 110
        IN  /\ DOMAIN sent \subseteq ParamKeys
            /\ \A key \in ParamKeys :
                /\ key \in DOMAIN given => key \in DOMAIN sent /\ sent[key] = given[key]
                /\ key \notin DOMAIN given =>
                    /\ key \in DOMAIN sent <=> key \in DefaultKeys
                    /\ key \in DefaultKeys => sent[key] = Default(key)

C2_Witness ==
    /\ Called
    /\ is_qwen(call.model_name)
    /\ DOMAIN call.parameters.map = {"temperature"}
    /\ call.parameters.map["temperature"] = 150
    /\ request.json.parameters["temperature"] = 150
    /\ request.json.parameters["max_new_tokens"] = 200

\* C3 as claimed: a tagged error whose description contains "loading" in any
\* letter case yields an outcome other than the generic "Error: <description>".
C3_WarmingDistinct ==
    (Called /\ TaggedError(result) /\ ValueOf(result.d, "error").k = "str"
       /\ py_contains(py_lower(ValueOf(result.d, "error").s), S_loading))
    => outcome # Ret(S_ErrorPrefix \o ValueOf(result.d, "error").s)

\* C3 amended: every tagged error with a string description, one that
\* contains "loading" included, yields "Error: " followed by the description.
C3_ErrorPrefixAlways ==
    (Called /\ TaggedError(result) /\ ValueOf(result.d, "error").k = "str")
    => outcome = Ret(S_ErrorPrefix \o ValueOf(result.d, "error").s)

C3_Witness ==
    /\ Called
    /\ result = VDict(<<Pair("error", LStr(LoadingDesc))>>)
    /\ outcome.kind = "return"
    /\ outcome.val = S_ErrorPrefix \o LoadingDesc

\* C4 as claimed: when the candidate text of a result without error contains
\* the prompt, the outcome is the text without the first occurrence of the
\* prompt, trimmed.
C4_PromptStripped ==
    (Called /\ ~TaggedError(result) /\ NoErrorItem(result) /\ HasTextMapping(result)
       /\ py_contains(Candidate(TextMapping(result)).s, call.prompt))
    => outcome = Ret(py_strip(RemoveFirst(Candidate(TextMapping(result)).s, call.prompt)))

\* C4 amended: the prompt is never removed; the outcome is the candidate text
\* with surrounding whitespace trimmed, so [{"generated_text": "Hello: Hi
\* there"}] with prompt "Hello: " yields "Hello: Hi there".
C4_PromptKept ==
    (Called /\ ~TaggedError(result) /\ NoErrorItem(result) /\ HasTextMapping(result)
       /\ py_contains(Candidate(TextMapping(result)).s, call.prompt))
    => /\ outcome = Ret(py_strip(Candidate(TextMapping(result)).s))
       /\ (Candidate(TextMapping(result)).s = HelloText => outcome.val = HelloText)

C4_Witness ==
    /\ Called
    /\ result = VList(<<VDict(<<Pair("generated_text", LStr(HelloText))>>)>>)
    /\ call.prompt = HelloPrompt
    /\ outcome = Ret(HelloText)

\* a mapping with none of the keys error, generated_text, text
UnrecognizedMapping(r) ==
    r.k = "dict" /\ \A i \in 1..Len(r.d) : r.d[i].key \notin {"error", "generated_text", "text"}

\* C5 as claimed: a mapping with none of the keys error, generated_text, text
\* yields the fixed "could not process" message.
C5_FixedFallback ==
    (Called /\ UnrecognizedMapping(result)) => outcome = Ret(FallbackMsg)

\* C5 amended: such a mapping yields its string rendering, "{'unexpected':
\* 42}" for {"unexpected": 42}, and get_response does not raise.
C5_StringRendering ==
    (Called /\ UnrecognizedMapping(result))
    => /\ outcome.kind = "return"
       /\ outcome.val = dict_repr(result.d)
       /\ outcome.val # FallbackMsg
       /\ (result.d = <<Pair("unexpected", LNum(42))>> => outcome.val = UnexpectedRendering)

C5_Witness ==
    /\ Called
    /\ result = VDict(<<Pair("unexpected", LNum(42))>>)
    /\ outcome = Ret(UnexpectedRendering)

\* C6 as claimed: for a Qwen model the inputs field is the user text wrapped
\* in a template, not the bare text; for a model of no instruct/chat family
\* it is the user text.
C6_QwenTemplate ==
    Called =>
        /\ is_qwen(call.model_name) =>
              request.json.inputs # call.prompt /\ py_contains(request.json.inputs, call.prompt)
        /\ ~is_qwen(call.model_name) => request.json.inputs = call.prompt

\* C6 amended: for every model name, Qwen or not, the inputs field is the
\* user text unmodified.
C6_InputsUnmodified == Called => request.json.inputs = call.prompt

C6_Witness ==
    /\ Called
    /\ is_qwen(call.model_name)
    /\ call.prompt = HelloPrompt
    /\ request.json.inputs = HelloPrompt

NoOverrides == DOMAIN call.parameters.map = {}

\* C7 as claimed: for a Qwen model without overrides the parameters sent are
\* exactly the four Qwen values; do_sample and return_full_text are absent.
C7_FamilyReplaces ==
    (Called /\ is_qwen(call.model_name) /\ NoOverrides)
    => DOMAIN request.json.parameters =
          {"max_new_tokens", "temperature", "top_p", "repetition_penalty"}

\* C7 amended: for a Qwen model without overrides the parameters sent are the
\* base set with the four Qwen values merged on top: six keys, do_sample True
\* and return_full_text False carried over from the base set.
C7_FamilyMerges ==
    (Called /\ is_qwen(call.model_name) /\ NoOverrides)
    => LET sent == request.json.parameters
       IN  /\ DOMAIN sent = ParamKeys
           /\ sent["max_new_tokens"] = 200
           /\ sent["temperature"] = 80
           /\ sent["top_p"] = 95
           /\ sent["repetition_penalty"] = 110
           /\ sent["do_sample"] = TRUE
           /\ sent["return_full_text"] = FALSE

C7_Witness ==
    /\ Called
    /\ call.model_name = Qwen2Instruct
    /\ ~call.parameters.given
    /\ "do_sample" \in DOMAIN request.json.parameters
    /\ request.json.parameters["repetition_penalty"] = 110

\* C9: for a result that is not a tagged error and whose text fields are
\* strings, the outcome is the trimmed generated_text of the first list item
\* (or of the mapping), else its trimmed text, whatever the later items of
\* the list are; an empty list yields its string rendering "[]".
C9_CandidateOrder ==
    (Called /\ ~TaggedError(result))
    => /\ HasTextMapping(result) => outcome = Ret(py_strip(Candidate(TextMapping(result)).s))
       /\ (result.k = "list" /\ Len(result.l) = 0) => outcome = Ret(EmptyListRendering)

\* C9 holds of every result none of whose list items is the string "error"
C9_WithoutErrorItem ==
    (Called /\ ~TaggedError(result) /\ NoErrorItem(result))
    => /\ HasTextMapping(result) => outcome = Ret(py_strip(Candidate(TextMapping(result)).s))
       /\ (result.k = "list" /\ Len(result.l) = 0) => outcome = Ret(EmptyListRendering)

(* --------------------------- Streamlit session ------------------------- *)

None == [none |-> TRUE, api_token |-> ""]

\* HuggingFaceChatbot.__init__
HuggingFaceChatbot(api_token) == [none |-> FALSE, api_token |-> api_token]

\* the secret store: no HUGGINGFACE_API_TOKEN entry, an empty one, a token
SecretStates == {[present |-> FALSE, token |-> ""],
                 [present |-> TRUE, token |-> ""],
                 [present |-> TRUE, token |-> "hf_s"]}

UIModels == {Qwen2Instruct, Gpt2}

UserTexts == {<<>>, <<"a">>}

SliderTemperatures == {80, 150}

\* replies the endpoint gives in a session: a generated text, a transport
\* error, a bare number, a null text field
UIResults ==
    {VList(<<VDict(<<Pair("generated_text", LStr(<<" ", "a">>))>>)>>),
     VDict(<<Pair("error", LStr(ServerErrorDesc))>>),
     VNum(42),
     VList(<<VDict(<<Pair("generated_text", LNull)>>)>>)}

\* api_token of main(): the secret when the entry exists (try), the text
\* input otherwise (except KeyError)
ApiToken == IF secrets.present THEN secrets.token ELSE token_input

\* initialize_session_state() on the first run of a session
Init ==
    /\ messages = <<>>
    /\ chatbot = None
    /\ api_configured = FALSE
    /\ secrets \in SecretStates
    /\ token_input = ""
    /\ selected_model = Qwen2Instruct
    /\ user_input = <<>>
    /\ button = "none"
    /\ calls = 0
    /\ call = NoCall
    /\ request = NoRequest
    /\ result = VNull
    /\ outcome = Ret(<<>>)

\* the user edits the fallback token field, shown when the secret is absent;
\* the run that follows presses no button
EnterToken ==
    /\ ~secrets.present
    /\ \E t \in Tokens : token_input' = t
    /\ button' = "none"
    /\ UNCHANGED <<messages, chatbot, api_configured, secrets, selected_model, user_input>>
    /\ UNCHANGED adapter_vars

\* the user picks a model in the selectbox
SelectModel ==
    /\ \E m \in UIModels : selected_model' = m
    /\ button' = "none"
    /\ UNCHANGED <<messages, chatbot, api_configured, secrets, token_input, user_input>>
    /\ UNCHANGED adapter_vars

\* the user edits the message field, shown once the API is configured
TypeInput ==
    /\ api_configured
    /\ \E t \in UserTexts : user_input' = t
    /\ button' = "none"
    /\ UNCHANGED <<messages, chatbot, api_configured, secrets, token_input, selected_model>>
    /\ UNCHANGED adapter_vars

\* "Configure API" under a mutation: the token is not tested
ConfigureAPIUnguarded ==
    /\ button' = "configure"
    /\ chatbot' = HuggingFaceChatbot(ApiToken)
    /\ api_configured' = TRUE
    /\ UNCHANGED <<messages, secrets, token_input, selected_model, user_input>>
    /\ UNCHANGED adapter_vars

\* the run in which "Configure API" is pressed
ConfigureAPI ==
    /\ button' = "configure"
    /\ IF ApiToken # ""
       THEN /\ chatbot' = HuggingFaceChatbot(ApiToken)
            /\ api_configured' = TRUE
       ELSE UNCHANGED <<chatbot, api_configured>>
    /\ UNCHANGED <<messages, secrets, token_input, selected_model, user_input>>
    /\ UNCHANGED adapter_vars

\* the run in which "Clear Chat" is pressed: the list is replaced and
\* st.rerun() ends the run
ClearChat ==
    /\ button' = "clear"
    /\ messages' = <<>>
    /\ UNCHANGED <<chatbot, api_configured, secrets, token_input, selected_model, user_input>>
    /\ UNCHANGED adapter_vars

Message(role, content) == [role |-> role, content |-> content]

\* the parameters dict main() builds from the sliders
slider_parameters(model_name, temperature) ==
    [given |-> TRUE,
     map |-> [key \in IF is_qwen(model_name) THEN ParamKeys
                      ELSE ParamKeys \ {"repetition_penalty"} |->
                CASE key = "max_new_tokens" -> IF is_qwen(model_name) THEN 200 ELSE 150
                  [] key = "temperature" -> temperature
                  [] key = "top_p" -> IF is_qwen(model_name) THEN 95 ELSE 90
                  [] key = "do_sample" -> TRUE
                  [] key = "return_full_text" -> FALSE
                  [] key = "repetition_penalty" -> 110]]

\* the run in which "Send" is pressed; the button exists once the API is
\* configured. With a non-empty message the user turn is appended, then
\* get_response runs; an exception it raises ends the run before the
\* assistant turn is appended.
Send ==
    /\ api_configured
    /\ calls < MaxSends
    /\ button' = "send"
    /\ IF user_input = <<>>
       THEN UNCHANGED <<messages, calls, call, request, result, outcome>>
       ELSE \E temperature \in SliderTemperatures, raw \in UIResults :
            LET parameters == slider_parameters(selected_model, temperature)
                out == get_response(selected_model, user_input, parameters, raw)
            IN  /\ calls' = calls + 1
                /\ call' = [model_name |-> selected_model, prompt |-> user_input,
                            parameters |-> parameters]
                /\ request' = query_model(chatbot.api_token, selected_model,
                                          user_input, parameters)
                /\ result' = raw
                /\ outcome' = out
                /\ messages' =
                     IF out.kind = "return"
                     THEN messages \o <<Message("user", user_input),
                                        Message("assistant", out.val)>>
                     ELSE Append(messages, Message("user", user_input))
    /\ UNCHANGED <<chatbot, api_configured, secrets, token_input, selected_model, user_input>>

Next ==
    \/ EnterToken
    \/ SelectModel
    \/ TypeInput
    \/ ConfigureAPI
    \/ ClearChat
    \/ Send

Spec == Init /\ [][Next]_vars

(* --------------------- properties of the session ----------------------- *)

\* C8: api_configured implies a chatbot with a non-empty token, every request
\* issued carries a non-empty bearer token, and a Configure API press with an
\* empty or absent token leaves api_configured and chatbot unchanged.
C8_TokenRequired ==
    /\ [](/\ api_configured => (~chatbot.none /\ chatbot.api_token # "")
          /\ calls > 0 => request.authorization # "")
    /\ [][(button' = "configure" /\ ApiToken = "")
            => UNCHANGED <<api_configured, chatbot>>]_vars

\* a request went out with the configured token after the token field was
\* emptied again
C8_Witness ==
    /\ ~secrets.present
    /\ token_input = ""
    /\ api_configured
    /\ button = "send"
    /\ calls > 0
    /\ request.authorization = "hf_a"

\* C10: the history has even length and alternates user, assistant, ...
\* starting with user.
C10_Alternates ==
    /\ Len(messages) % 2 = 0
    /\ \A i \in 1..Len(messages) :
         messages[i].role = IF i % 2 = 1 THEN "user" ELSE "assistant"

====
